---------------------------- MODULE Spec2Model ----------------------------
(***************************************************************************)
(* Lifecycle and negotiation engine of the Renesas Ethernet Switch         *)
(* para-virtualized backend (drivers/net/ethernet/renesas/                 *)
(* rswitch_xenback.c): probe (Attach), the frontend-state callback with    *)
(* its driver loop set_backend_state, connect / disconnect, and remove.    *)
(*                                                                         *)
(* One xenbus device and its rswitch_vmq_back_info ("be") are modelled.    *)
(* The xenbus callbacks of one device run serially; `pc` is the position   *)
(* of that single control thread.  A control-store reader, the two          *)
(* interrupt handlers and other users of the chain pool run concurrently   *)
(* with it, each in a specification of its own.                            *)
(***************************************************************************)
EXTENDS Naturals, Sequences, FiniteSets

(* ------------------------------ bounds -------------------------------- *)

\* Number of chains in the shared pool.
NChains == 2

\* Number of interrupt ids the notification layer can hand out.
MaxIrq == 4

\* Number of conflicts (-EAGAIN) the control store answers to one probe.
MaxRetry == 1

\* Largest interface index a frontend writes in "if-num".
MaxIfNum == 1

Chains == 1 .. NChains
Irqs == 1 .. MaxIrq
IfNums == 0 .. MaxIfNum

(* ------------------------- program constants -------------------------- *)

\* enum xenbus_state, as used by the callback and the driver loop.
XenbusStates ==
    {"Unknown", "Initialising", "InitWait", "Initialised", "Connected",
     "Closing", "Closed", "Reconfiguring", "Reconfigured"}

\* RSWITCH_BACK_BASE_INDEX.
RSWITCH_BACK_BASE_INDEX == 3

\* The default xenbus_read_unsigned returns for a missing or malformed key.
ReadDefault == 255

\* The owner id the frontend writes in "osid".
PeerOsid == 5

\* The entries of priv->rdev[] that probe can write.
Slots == {RSWITCH_BACK_BASE_INDEX + i : i \in IfNums \cup {ReadDefault}}

\* The three keys probe publishes under dev->nodename.
ProbeKeys == <<"tx-chain-id", "rx-chain-id", "remote-chain-id">>

VARIABLES
    pc,             \* position of the xenbus control thread
    cont,           \* what rswitch_vmq_frontend_changed does after set_backend_state
    desired,        \* argument `state` of the running set_backend_state
    warned,         \* a WARN_ON(1) fired in the running set_backend_state
    online,         \* xenbus_dev_is_online in the running callback: unread / yes / no
    connect_ret,    \* how the last rswitch_vmq_back_connect returned
    state,          \* dev->state
    frontend_state, \* be->frontend_state
    be,             \* the kzalloc'ed rswitch_vmq_back_info: none / alive / freed
    drvdata,        \* dev_get_drvdata(&dev->dev)
    rdev,           \* be->rdev: NULL / REG (valid) / ERR (ERR_PTR)
    tx_chain,       \* be->tx_chain (0 is NULL)
    rx_chain,       \* be->rx_chain (0 is NULL)
    tx_irq,         \* be->tx_irq (0 is unbound)
    rx_irq,         \* be->rx_irq (0 is unbound)
    pool,           \* chain pool: chain -> free / other / be
    puts,           \* chain -> number of rswitch_gwca_put calls by this device
    handler,        \* notification layer: irq -> none / tx / rx handler bound
    next_irq,       \* next interrupt id the notification layer hands out
    unbind_log,     \* irqs passed to unbind_from_irqhandler, in order
    disconnects,    \* number of rswitch_vmq_back_disconnect calls
    ndev,           \* the local network device is registered
    store,          \* control store: keys visible to every reader
    xbt_open,       \* a transaction of probe is open
    xbt_buf,        \* keys written inside the open transaction
    retries,        \* conflicts answered to probe so far
    seen,           \* last observation of the concurrent reader
    osid,           \* be->osid
    if_num,         \* be->if_num
    priv_rdev,      \* priv->rdev[]: slot -> none / other / be / stale (freed rdev)
    faults,         \* what went wrong inside a callback
    isr,            \* the interrupt handler that ran last, when, and what it did
    edges,          \* xenbus_switch_state calls of the running set_backend_state
    registered,     \* chain -> rswitch_gwca_chain_register calls on it, none undone
    notified        \* channels the running or last connect signalled

ctl_vars == <<pc, cont, desired, warned, online, connect_ret>>
dev_vars == <<state, frontend_state>>
be_vars == <<be, drvdata, rdev, tx_chain, rx_chain, tx_irq, rx_irq>>
pool_vars == <<pool, puts>>
irq_vars == <<handler, next_irq, unbind_log, disconnects>>
store_vars == <<store, xbt_open, xbt_buf, retries>>
cfg_vars == <<osid, if_num, priv_rdev>>
mon_vars == <<edges, registered, notified>>
vars ==
    <<ctl_vars, dev_vars, be_vars, pool_vars, irq_vars, ndev, store_vars, seen,
      cfg_vars, faults, isr, mon_vars>>

Range(s) == {s[i] : i \in DOMAIN s}

(* ----------------------------- chain pool ----------------------------- *)

\* rswitch_gwca_get: a free chain of the pool, or NULL (0) when none is free.
rswitch_gwca_get(p) ==
    IF \E c \in Chains : p[c] = "free"
    THEN CHOOSE c \in Chains : p[c] = "free" /\ \A d \in Chains : p[d] = "free" => c <= d
    ELSE 0

\* The pool after handing chain c to this device.
gwca_take(p, c) == IF c = 0 THEN p ELSE [p EXCEPT ![c] = "be"]

\* rswitch_gwca_put for each chain of a sequence: the chain goes back to the
\* pool.
rswitch_gwca_put(p, seq) ==
    [c \in Chains |-> IF c \in Range(seq) THEN "free" ELSE p[c]]

\* The puts counted per chain.
count_puts(n, seq) ==
    [c \in Chains |-> n[c] + Cardinality({i \in DOMAIN seq : seq[i] = c})]

(* ------------------------------- Init --------------------------------- *)

Init ==
    /\ pc = "probe"
    /\ cont = "ret"
    /\ desired = "Unknown"
    /\ warned = FALSE
    /\ online = "unread"
    /\ connect_ret = "none"
    /\ state = "Initialising"
    /\ frontend_state = "Unknown"
    /\ be = "none"
    /\ drvdata = "NULL"
    /\ rdev = "NULL"
    /\ tx_chain = 0
    /\ rx_chain = 0
    /\ tx_irq = 0
    /\ rx_irq = 0
    /\ pool \in [Chains -> {"free", "other"}]
    /\ puts = [c \in Chains |-> 0]
    /\ handler = [i \in Irqs |-> "none"]
    /\ next_irq = 1
    /\ unbind_log = << >>
    /\ disconnects = 0
    /\ ndev = FALSE
    /\ store = {}
    /\ xbt_open = FALSE
    /\ xbt_buf = {}
    /\ retries = 0
    /\ seen = [keys |-> {}, buffered |-> 0, reads |-> 0]
    /\ osid = 0
    /\ if_num = 0
    /\ \E others \in {{}} \cup {{i} : i \in IfNums} :
         priv_rdev = [s \in Slots |->
                        IF \E i \in others : s = RSWITCH_BACK_BASE_INDEX + i
                        THEN "other" ELSE "none"]
    /\ faults = {}
    /\ isr = [kind |-> "none", ctx |-> "none", did |-> "none", eoi |-> 0, ret |-> "none"]
    /\ edges = 0
    /\ registered = [c \in Chains |-> 0]
    /\ notified = {}

(* ------------------------- rswitch_vmq_back_probe --------------------- *)

\* A fail: label that puts nothing back.
probe_fail_release_none(rx, tx) == << >>

\* The chains the fail: label hands back: each non-NULL chain field of be.
probe_fail_release(rx, tx) ==
    (IF rx # 0 THEN <<rx>> ELSE << >>) \o (IF tx # 0 THEN <<tx>> ELSE << >>)

\* Allocation of be, lookup of the switch, acquisition of both chains.
rswitch_vmq_back_probe_get ==
    /\ pc = "probe"
    /\ \E alloc_ok \in BOOLEAN, priv_ok \in BOOLEAN :
         IF ~alloc_ok
         THEN /\ pc' = "probe_failed"
              /\ UNCHANGED <<be, drvdata, tx_chain, rx_chain, pool>>
         ELSE IF ~priv_ok
         THEN /\ pc' = "probe_failed"
              /\ be' = "alive"
              /\ UNCHANGED <<drvdata, tx_chain, rx_chain, pool>>
         ELSE LET t == rswitch_gwca_get(pool)
                  p1 == gwca_take(pool, t)
                  r == rswitch_gwca_get(p1)
              IN  /\ be' = "alive"
                  /\ tx_chain' = t
                  /\ rx_chain' = r
                  /\ pool' = gwca_take(p1, r)
                  /\ IF r = 0 \/ t = 0
                     THEN pc' = "p_fail" /\ UNCHANGED drvdata
                     ELSE pc' = "p_ndev" /\ drvdata' = "be"
    /\ UNCHANGED <<mon_vars, cont, desired, warned, online, connect_ret, dev_vars, rdev,
                   tx_irq, rx_irq, puts, irq_vars, ndev, store_vars, seen,
                   cfg_vars, faults, isr>>

\* xenbus_read_unsigned(dev->otherend, key, 255): the value of the key, or
\* the default when the key is missing or malformed.
xenbus_read_unsigned(present, val) == IF present THEN val ELSE ReadDefault

\* rswitch_vmq_back_ndev_register writes priv->rdev[BASE + index] before
\* register_netdev: the entry is overwritten whatever it held, and is left
\* pointing to the freed rdev when a later step fails.
ndev_register_slot(tbl, index, res) ==
    CASE res = "ok" -> [tbl EXCEPT ![RSWITCH_BACK_BASE_INDEX + index] = "be"]
      [] res = "enomem" -> tbl
      [] OTHER -> [tbl EXCEPT ![RSWITCH_BACK_BASE_INDEX + index] = "stale"]

\* Read of osid and if-num, registration of the local network device; on an
\* error of the registration probe returns at once, not through fail:.
\* register_netdev refuses a name ("vmq%d") that a registered device has.
rswitch_vmq_back_probe_ndev ==
    /\ pc = "p_ndev"
    /\ \E osid_ok \in BOOLEAN, ifnum_ok \in BOOLEAN, n \in IfNums,
          res \in {"ok", "enomem", "error"} :
         LET idx == xenbus_read_unsigned(ifnum_ok, n)
         IN  /\ res = "ok" => priv_rdev[RSWITCH_BACK_BASE_INDEX + idx] # "other"
             /\ ~ifnum_ok => n = 0
             /\ osid' = xenbus_read_unsigned(osid_ok, PeerOsid)
             /\ if_num' = idx
             /\ priv_rdev' = ndev_register_slot(priv_rdev, idx, res)
             /\ IF res = "ok"
                THEN /\ rdev' = "REG"
                     /\ ndev' = TRUE
                     /\ pc' = "p_start"
                ELSE /\ rdev' = "ERR"
                     /\ ndev' = FALSE
                     /\ pc' = "probe_failed"
    /\ UNCHANGED <<mon_vars, cont, desired, warned, online, connect_ret, dev_vars, be, drvdata,
                   tx_chain, rx_chain, tx_irq, rx_irq, pool_vars, irq_vars,
                   store_vars, seen, faults, isr>>

\* xenbus_transaction_start.
rswitch_vmq_back_probe_start ==
    /\ pc = "p_start"
    /\ \E ok \in BOOLEAN :
         IF ok
         THEN /\ xbt_open' = TRUE
              /\ xbt_buf' = {}
              /\ pc' = "p_write"
         ELSE /\ pc' = "p_fail"
              /\ UNCHANGED <<xbt_open, xbt_buf>>
    /\ UNCHANGED <<mon_vars, cont, desired, warned, online, connect_ret, dev_vars, be_vars,
                   pool_vars, irq_vars, ndev, store, retries, seen,
                   cfg_vars, faults, isr>>

\* A xenbus_printf given XBT_NIL: the key is visible at once.
probe_printf_nil(st, buf, key) == [store |-> st \cup {key}, buf |-> buf \cup {key}]

\* Where a xenbus_printf of probe lands: probe passes the open transaction,
\* so the key is buffered in it and the visible store is left alone.
probe_printf(st, buf, key) == [store |-> st, buf |-> buf \cup {key}]

\* One xenbus_printf of the publish: the next key of ProbeKeys.
rswitch_vmq_back_probe_write ==
    /\ pc = "p_write"
    /\ xbt_open
    /\ LET k == ProbeKeys[Cardinality(xbt_buf) + 1]
       IN  \E ok \in BOOLEAN :
             IF ok
             THEN /\ store' = probe_printf(store, xbt_buf, k).store
                  /\ xbt_buf' = probe_printf(store, xbt_buf, k).buf
                  /\ pc' = IF Cardinality(xbt_buf) + 1 = Len(ProbeKeys)
                           THEN "p_end" ELSE "p_write"
             ELSE /\ pc' = "p_abort"
                  /\ UNCHANGED <<store, xbt_buf>>
    /\ UNCHANGED <<mon_vars, cont, desired, warned, online, connect_ret, dev_vars, be_vars,
                   pool_vars, irq_vars, ndev, xbt_open, retries, seen,
                   cfg_vars, faults, isr>>

\* A probe that takes an error of xenbus_transaction_end for success.
probe_end_next_ignore_err(res) ==
    CASE res = "EAGAIN" -> "p_start"
      [] OTHER -> "p_switch"

\* A loop that starts again on every failure of xenbus_transaction_end.
probe_end_next_retry_any(res) ==
    CASE res = "ok" -> "p_switch"
      [] OTHER -> "p_start"

\* while (err == -EAGAIN); if (err) goto fail: where probe goes after
\* xenbus_transaction_end(xbt, 0) returned res.
probe_end_next(res) ==
    CASE res = "ok" -> "p_switch"
      [] res = "EAGAIN" -> "p_start"
      [] OTHER -> "p_fail"

\* xenbus_transaction_end(xbt, 0) and the loop condition err == -EAGAIN.
rswitch_vmq_back_probe_end ==
    /\ pc = "p_end"
    /\ \E res \in {"ok", "EAGAIN", "error"} :
         /\ res = "EAGAIN" => retries < MaxRetry
         /\ xbt_open' = FALSE
         /\ xbt_buf' = {}
         /\ store' = IF res = "ok" THEN store \cup xbt_buf ELSE store
         /\ retries' = IF res = "EAGAIN" THEN retries + 1 ELSE retries
         /\ pc' = probe_end_next(res)
    /\ UNCHANGED <<mon_vars, cont, desired, warned, online, connect_ret, dev_vars, be_vars,
                   pool_vars, irq_vars, ndev, seen,
                   cfg_vars, faults, isr>>

\* abort_transaction: xenbus_transaction_end(xbt, 1).
rswitch_vmq_back_probe_abort ==
    /\ pc = "p_abort"
    /\ xbt_open' = FALSE
    /\ xbt_buf' = {}
    /\ pc' = "p_fail"
    /\ UNCHANGED <<mon_vars, cont, desired, warned, online, connect_ret, dev_vars, be_vars,
                   pool_vars, irq_vars, ndev, store, retries, seen,
                   cfg_vars, faults, isr>>

\* fail: both chain fields are put back when not NULL; probe returns err.
rswitch_vmq_back_probe_fail ==
    /\ pc = "p_fail"
    /\ pool' = rswitch_gwca_put(pool, probe_fail_release(rx_chain, tx_chain))
    /\ puts' = count_puts(puts, probe_fail_release(rx_chain, tx_chain))
    /\ pc' = "probe_failed"
    /\ UNCHANGED <<mon_vars, cont, desired, warned, online, connect_ret, dev_vars, be_vars,
                   irq_vars, ndev, store_vars, seen,
                   cfg_vars, faults, isr>>

\* xenbus_switch_state(dev, XenbusStateInitWait); return 0.
rswitch_vmq_back_probe_switch ==
    /\ pc = "p_switch"
    /\ state' = "InitWait"
    /\ pc' = "idle"
    /\ UNCHANGED <<mon_vars, cont, desired, warned, online, connect_ret, frontend_state,
                   be_vars, pool_vars, irq_vars, ndev, store_vars, seen,
                   cfg_vars, faults, isr>>

(* ------------------- connect / disconnect / remove -------------------- *)

\* The handlers rswitch_vmq_back_disconnect unbinds, in its order: rx if
\* bound, then tx if bound.
disconnect_irqs(rx, tx) ==
    (IF rx # 0 THEN <<rx>> ELSE << >>) \o (IF tx # 0 THEN <<tx>> ELSE << >>)

\* A disconnect that forgets to reset the handler fields.
disconnect_keep(irq) == irq

\* The value rswitch_vmq_back_disconnect leaves in a handler field.
disconnect_clear(irq) == 0

\* unbind_from_irqhandler for each irq of a sequence.
unbind_from_irqhandler(h, seq) ==
    [i \in Irqs |-> IF i \in Range(seq) THEN "none" ELSE h[i]]

\* rswitch_vmq_back_disconnect, as a part of the action that calls it.
rswitch_vmq_back_disconnect ==
    /\ handler' = unbind_from_irqhandler(handler, disconnect_irqs(rx_irq, tx_irq))
    /\ unbind_log' = unbind_log \o disconnect_irqs(rx_irq, tx_irq)
    /\ tx_irq' = disconnect_clear(tx_irq)
    /\ rx_irq' = disconnect_clear(rx_irq)
    /\ disconnects' = disconnects + 1
    /\ UNCHANGED next_irq

\* set_backend_state leaves through `return` or the loop condition: the
\* callback goes on with what follows its call.
sbs_return ==
    /\ pc' = CASE cont = "online" -> "fc_online"
              [] cont = "unreg" -> "fc_unreg"
              [] OTHER -> "idle"
    /\ edges' = 0

\* xenbus_dev_fatal: the error is reported; dev->state is as it was.
xenbus_dev_fatal(cur) == cur

\* A loop that switches to Connected whatever connect returned.
sbs_after_connect_always(cur, ret) == "Connected"

\* if (rswitch_vmq_back_connect(dev)) return;
\* xenbus_switch_state(dev, XenbusStateConnected): dev->state after the case.
sbs_after_connect(cur, ret) == IF ret = "ok" THEN "Connected" ELSE cur

\* A connect that goes on to bind when xenbus_gather failed.
connect_gather_ignore(ok) == "c_bindtx"

\* if (err) { xenbus_dev_fatal(...); return err; } after xenbus_gather.
connect_gather_next(ok) == IF ok THEN "c_bindtx" ELSE "return"

\* xenbus_gather of tx-evtch and rx-evtch.
rswitch_vmq_back_connect_gather ==
    /\ pc = "c_gather"
    /\ \E ok \in BOOLEAN :
         /\ connect_ret' = IF ok THEN connect_ret ELSE "err_gather"
         /\ IF connect_gather_next(ok) = "c_bindtx"
            THEN pc' = "c_bindtx" /\ UNCHANGED <<state, edges>>
            ELSE /\ state' = sbs_after_connect(xenbus_dev_fatal(state), "err_gather")
                 /\ sbs_return
    /\ UNCHANGED <<registered, notified, cont, desired, warned, online, frontend_state, be_vars, pool_vars,
                   irq_vars, ndev, store_vars, seen,
                   cfg_vars, faults, isr>>

\* bind_interdomain_evtchn_to_irqhandler_lateeoi for tx_evt.
rswitch_vmq_back_connect_bindtx ==
    /\ pc = "c_bindtx"
    /\ \E ok \in BOOLEAN :
         /\ ok => next_irq <= MaxIrq
         /\ IF ok
            THEN /\ handler' = [handler EXCEPT ![next_irq] = "tx"]
                 /\ tx_irq' = next_irq
                 /\ next_irq' = next_irq + 1
                 /\ pc' = "c_bindrx"
                 /\ UNCHANGED <<connect_ret, state, edges>>
            ELSE /\ connect_ret' = "err_tx"
                 /\ state' = sbs_after_connect(xenbus_dev_fatal(state), "err_tx")
                 /\ sbs_return
                 /\ UNCHANGED <<handler, tx_irq, next_irq>>
    /\ UNCHANGED <<registered, notified, cont, desired, warned, online, frontend_state, be, drvdata, rdev,
                   tx_chain, rx_chain, rx_irq, pool_vars, unbind_log, disconnects,
                   ndev, store_vars, seen,
                   cfg_vars, faults, isr>>

\* bind_interdomain_evtchn_to_irqhandler_lateeoi for rx_evt.
rswitch_vmq_back_connect_bindrx ==
    /\ pc = "c_bindrx"
    /\ \E ok \in BOOLEAN :
         /\ ok => next_irq <= MaxIrq
         /\ IF ok
            THEN /\ handler' = [handler EXCEPT ![next_irq] = "rx"]
                 /\ rx_irq' = next_irq
                 /\ next_irq' = next_irq + 1
                 /\ pc' = "c_register"
                 /\ UNCHANGED <<connect_ret, state, edges>>
            ELSE /\ connect_ret' = "err_rx"
                 /\ state' = sbs_after_connect(xenbus_dev_fatal(state), "err_rx")
                 /\ sbs_return
                 /\ UNCHANGED <<handler, rx_irq, next_irq>>
    /\ UNCHANGED <<registered, notified, cont, desired, warned, online, frontend_state, be, drvdata, rdev,
                   tx_chain, rx_chain, tx_irq, pool_vars, unbind_log, disconnects,
                   ndev, store_vars, seen,
                   cfg_vars, faults, isr>>

\* rswitch_gwca_chain_register for each chain of a set: the datapath takes
\* the chain in once more.
rswitch_gwca_chain_register(reg, cs) ==
    [c \in Chains |-> IF c \in cs THEN reg[c] + 1 ELSE reg[c]]

\* Chain registration, the two notifications, return 0; set_backend_state
\* then switches to Connected and loops.
rswitch_vmq_back_connect_register ==
    /\ pc = "c_register"
    /\ registered' = rswitch_gwca_chain_register(registered, {tx_chain, rx_chain})
    /\ notified' = {"tx", "rx"}
    /\ connect_ret' = "ok"
    /\ state' = sbs_after_connect(state, "ok")
    /\ edges' = edges + 1
    /\ pc' = "sbs"
    /\ UNCHANGED <<cont, desired, warned, online, frontend_state, be_vars,
                   pool_vars, irq_vars, ndev, store_vars, seen,
                   cfg_vars, faults, isr>>

\* The chains rswitch_vmq_back_remove hands back: rx if set, then tx if set.
remove_release(rx, tx) ==
    (IF rx # 0 THEN <<rx>> ELSE << >>) \o (IF tx # 0 THEN <<tx>> ELSE << >>)

\* rswitch_ndev_unregister(priv, index): the device of the slot is
\* unregistered and the slot emptied.
rswitch_ndev_unregister(tbl, index) ==
    [tbl EXCEPT ![RSWITCH_BACK_BASE_INDEX + index] = "none"]

\* A remove that unregisters the device without disconnecting first.
remove_first_unregister(registered_dev) ==
    IF registered_dev THEN "unregister" ELSE "put"

\* The first thing rswitch_vmq_back_remove does: with a device handle,
\* rswitch_vmq_back_disconnect; without one it goes on to the chains.
remove_first(registered_dev) ==
    IF registered_dev THEN "disconnect" ELSE "put"

\* rswitch_vmq_back_remove, entry.  With no driver data, be is NULL and the
\* first read of be->rdev faults.  With a device handle, disconnect runs.
rswitch_vmq_back_remove ==
    /\ pc = "remove"
    /\ IF drvdata = "NULL"
       THEN /\ faults' = faults \cup {"null_deref"}
            /\ pc' = "oops"
            /\ UNCHANGED <<irq_vars, tx_irq, rx_irq>>
       ELSE /\ UNCHANGED faults
            /\ CASE remove_first(rdev # "NULL") = "disconnect" ->
                      rswitch_vmq_back_disconnect /\ pc' = "r_unreg"
                 [] remove_first(rdev # "NULL") = "unregister" ->
                      pc' = "r_unreg" /\ UNCHANGED <<irq_vars, tx_irq, rx_irq>>
                 [] OTHER ->
                      pc' = "r_put" /\ UNCHANGED <<irq_vars, tx_irq, rx_irq>>
    /\ UNCHANGED <<mon_vars, cont, desired, warned, online, connect_ret, dev_vars,
                   be, drvdata, rdev, tx_chain, rx_chain, pool_vars, ndev,
                   store_vars, seen, cfg_vars, isr>>

\* rswitch_ndev_unregister(priv, BASE + be->if_num); be->rdev = NULL.
rswitch_vmq_back_remove_unregister ==
    /\ pc = "r_unreg"
    /\ priv_rdev' = rswitch_ndev_unregister(priv_rdev, if_num)
    /\ ndev' = FALSE
    /\ faults' =
         IF priv_rdev[RSWITCH_BACK_BASE_INDEX + if_num] = "be" /\ ndev
         THEN faults ELSE faults \cup {"unregister_unregistered"}
    /\ rdev' = "NULL"
    /\ pc' = "r_put"
    /\ UNCHANGED <<mon_vars, cont, desired, warned, online, connect_ret, dev_vars,
                   be, drvdata, tx_chain, rx_chain, tx_irq, rx_irq, pool_vars,
                   irq_vars, store_vars, seen, osid, if_num, isr>>

\* The two rswitch_gwca_put of remove.
rswitch_vmq_back_remove_put ==
    /\ pc = "r_put"
    /\ pool' = rswitch_gwca_put(pool, remove_release(rx_chain, tx_chain))
    /\ puts' = count_puts(puts, remove_release(rx_chain, tx_chain))
    /\ pc' = "r_free"
    /\ UNCHANGED <<mon_vars, cont, desired, warned, online, connect_ret, dev_vars,
                   be_vars, irq_vars, ndev, store_vars, seen, cfg_vars, faults, isr>>

\* kfree(be); dev_set_drvdata(&dev->dev, NULL); return 0.
rswitch_vmq_back_remove_free ==
    /\ pc = "r_free"
    /\ be' = "freed"
    /\ drvdata' = "NULL"
    /\ pc' = "gone"
    /\ UNCHANGED <<mon_vars, cont, desired, warned, online, connect_ret, dev_vars,
                   rdev, tx_chain, rx_chain, tx_irq, rx_irq, pool_vars, irq_vars,
                   ndev, store_vars, seen, cfg_vars, faults, isr>>

(* -------------------------- set_backend_state ------------------------- *)

\* A switch whose outer default closes the device instead of warning.
sbs_edge_default_closes(cur, des) ==
    CASE cur = "Closed" ->
           (CASE des \in {"InitWait", "Connected"} -> "InitWait"
              [] des = "Closing" -> "Closing"
              [] OTHER -> "WARN")
      [] cur \in {"InitWait", "Initialised"} ->
           (CASE des = "Connected" -> "connect"
              [] des \in {"Closing", "Closed"} -> "Closing"
              [] OTHER -> "WARN")
      [] cur = "Connected" ->
           (CASE des \in {"InitWait", "Closing", "Closed"} -> "disconnect"
              [] OTHER -> "WARN")
      [] cur = "Closing" ->
           (CASE des \in {"InitWait", "Connected", "Closed"} -> "Closed"
              [] OTHER -> "WARN")
      [] OTHER -> "Closed"

\* A switch that has no way out of Closed.
sbs_edge_closed_stuck(cur, des) ==
    CASE cur = "Closed" -> "WARN"
      [] cur \in {"InitWait", "Initialised"} ->
           (CASE des = "Connected" -> "connect"
              [] des \in {"Closing", "Closed"} -> "Closing"
              [] OTHER -> "WARN")
      [] cur = "Connected" ->
           (CASE des \in {"InitWait", "Closing", "Closed"} -> "disconnect"
              [] OTHER -> "WARN")
      [] cur = "Closing" ->
           (CASE des \in {"InitWait", "Connected", "Closed"} -> "Closed"
              [] OTHER -> "WARN")
      [] OTHER -> "WARN"

\* The switch of set_backend_state: what one pass of the loop does for
\* dev->state = cur and the wanted state des (cur # des).  A state name is
\* a plain xenbus_switch_state to it.
sbs_edge(cur, des) ==
    CASE cur = "Closed" ->
           (CASE des \in {"InitWait", "Connected"} -> "InitWait"
              [] des = "Closing" -> "Closing"
              [] OTHER -> "WARN")
      [] cur \in {"InitWait", "Initialised"} ->
           (CASE des = "Connected" -> "connect"
              [] des \in {"Closing", "Closed"} -> "Closing"
              [] OTHER -> "WARN")
      [] cur = "Connected" ->
           (CASE des \in {"InitWait", "Closing", "Closed"} -> "disconnect"
              [] OTHER -> "WARN")
      [] cur = "Closing" ->
           (CASE des \in {"InitWait", "Connected", "Closed"} -> "Closed"
              [] OTHER -> "WARN")
      [] OTHER -> "WARN"

\* The loop condition is false: set_backend_state returns.
set_backend_state_exit ==
    /\ pc = "sbs"
    /\ state = desired
    /\ sbs_return
    /\ UNCHANGED <<registered, notified, cont, desired, warned, online, connect_ret, dev_vars, be_vars,
                   pool_vars, irq_vars, ndev, store_vars, seen,
                   cfg_vars, faults, isr>>

\* One pass of the loop that only switches the state.
set_backend_state_switch ==
    /\ pc = "sbs"
    /\ state # desired
    /\ sbs_edge(state, desired) \in {"InitWait", "Closing", "Closed"}
    /\ state' = sbs_edge(state, desired)
    /\ edges' = edges + 1
    /\ UNCHANGED <<registered, notified, ctl_vars, frontend_state, be_vars, pool_vars, irq_vars, ndev,
                   store_vars, seen,
                   cfg_vars, faults, isr>>

\* One pass of the loop that enters rswitch_vmq_back_connect.
set_backend_state_connect ==
    /\ pc = "sbs"
    /\ state # desired
    /\ sbs_edge(state, desired) = "connect"
    /\ pc' = "c_gather"
    /\ connect_ret' = "none"
    /\ notified' = {}
    /\ UNCHANGED <<edges, registered, cont, desired, warned, online, dev_vars, be_vars, pool_vars,
                   irq_vars, ndev, store_vars, seen,
                   cfg_vars, faults, isr>>

\* One pass of the loop that disconnects and switches to Closing.
set_backend_state_disconnect ==
    /\ pc = "sbs"
    /\ state # desired
    /\ sbs_edge(state, desired) = "disconnect"
    /\ rswitch_vmq_back_disconnect
    /\ state' = "Closing"
    /\ edges' = edges + 1
    /\ UNCHANGED <<registered, notified, ctl_vars, frontend_state, be, drvdata, rdev, tx_chain, rx_chain,
                   pool_vars, ndev, store_vars, seen,
                   cfg_vars, faults, isr>>

\* One pass of the loop that ends in a default: WARN_ON(1); the loop
\* condition is evaluated again with nothing changed.
set_backend_state_warn ==
    /\ pc = "sbs"
    /\ state # desired
    /\ sbs_edge(state, desired) = "WARN"
    /\ warned' = TRUE
    /\ UNCHANGED <<mon_vars, pc, cont, desired, online, connect_ret, dev_vars, be_vars,
                   pool_vars, irq_vars, ndev, store_vars, seen,
                   cfg_vars, faults, isr>>

(* --------------------- rswitch_vmq_frontend_changed ------------------- *)

\* The outer switch of rswitch_vmq_frontend_changed: the state handed to
\* set_backend_state and what follows the call.
frontend_case(fs) ==
    CASE fs = "Initialising" -> [do |-> "sbs", desired |-> "InitWait", cont |-> "ret"]
      [] fs \in {"Initialised", "Connected"} ->
           [do |-> "sbs", desired |-> "Connected", cont |-> "ret"]
      [] fs = "Reconfiguring" ->
           [do |-> "switch", desired |-> "Reconfigured", cont |-> "ret"]
      [] fs = "Closing" -> [do |-> "sbs", desired |-> "Closing", cont |-> "ret"]
      [] fs = "Closed" -> [do |-> "sbs", desired |-> "Closed", cont |-> "online"]
      [] fs = "Unknown" -> [do |-> "sbs", desired |-> "Closed", cont |-> "unreg"]
      [] OTHER -> [do |-> "fatal", desired |-> "Unknown", cont |-> "ret"]

\* The callback is entered with the state the frontend announced.
rswitch_vmq_frontend_changed ==
    /\ pc = "idle"
    /\ \E fs \in XenbusStates :
         LET c == frontend_case(fs)
         IN  /\ frontend_state' = fs
             /\ online' = "unread"
             /\ warned' = FALSE
             /\ connect_ret' = "none"
             /\ edges' = 0
             /\ notified' = {}
             /\ CASE c.do = "sbs" ->
                       /\ desired' = c.desired
                       /\ cont' = c.cont
                       /\ pc' = "sbs"
                       /\ UNCHANGED state
                  [] c.do = "switch" ->
                       /\ state' = c.desired
                       /\ UNCHANGED <<pc, cont, desired>>
                  [] OTHER -> UNCHANGED <<pc, cont, desired, state>>
    /\ UNCHANGED <<registered, be_vars, pool_vars, irq_vars, ndev, store_vars, seen,
                   cfg_vars, faults, isr>>

\* The break after the online test left out: always falls through.
online_fallthrough(on) == FALSE

\* if (xenbus_dev_is_online(dev)) break; else fall through to the case of
\* XenbusStateUnknown.
online_break(on) == on

rswitch_vmq_frontend_changed_online ==
    /\ pc = "fc_online"
    /\ \E on \in BOOLEAN :
         /\ online' = (IF on THEN "yes" ELSE "no")
         /\ IF online_break(on)
            THEN pc' = "idle" /\ UNCHANGED <<cont, desired, edges>>
            ELSE pc' = "sbs" /\ desired' = "Closed" /\ cont' = "unreg" /\ edges' = 0
    /\ UNCHANGED <<registered, notified, warned, connect_ret, dev_vars, be_vars, pool_vars, irq_vars,
                   ndev, store_vars, seen,
                   cfg_vars, faults, isr>>

\* device_unregister(&dev->dev): the driver's remove callback runs.
rswitch_vmq_frontend_changed_unregister ==
    /\ pc = "fc_unreg"
    /\ pc' = "remove"
    /\ UNCHANGED <<mon_vars, cont, desired, warned, online, connect_ret, dev_vars, be_vars,
                   pool_vars, irq_vars, ndev, store_vars, seen,
                   cfg_vars, faults, isr>>

\* The bus removes the device between two callbacks (.remove of
\* rswitch_vmq_driver).
rswitch_vmq_driver_remove ==
    /\ pc = "idle"
    /\ pc' = "remove"
    /\ online' = "unread"
    /\ UNCHANGED <<mon_vars, cont, desired, warned, connect_ret, dev_vars, be_vars,
                   pool_vars, irq_vars, ndev, store_vars, seen,
                   cfg_vars, faults, isr>>

(* -------------------------- interrupt handlers ------------------------ *)

\* When a handler bound as irq i runs: after be was freed, after the connect
\* that bound it completed (both handlers bound and recorded in be, the
\* chains registered), or before that.
isr_context(i) ==
    CASE be = "freed" -> "freed"
      [] /\ i \in {tx_irq, rx_irq}
         /\ tx_irq # 0
         /\ rx_irq # 0
         /\ pc \notin {"c_bindrx", "c_register"} -> "connected"
      [] OTHER -> "early"

\* A handler that returns without xen_irq_lateeoi.
irq_eoi_none(kind) == 0

\* The xen_irq_lateeoi(irq, 0) calls of one run of a handler.
irq_eoi(kind) == 1

\* What one run of a handler does besides: rx re-enables the interrupts of
\* be->rdev, tx triggers be->tx_chain.
irq_bridge(kind) ==
    IF kind = "rx" THEN "rswitch_enadis_rdev_irqs" ELSE "rswitch_trigger_chain"

\* One run of the handler of `kind`, bound as irq i.
irq_run(kind, i) ==
    [kind |-> kind, ctx |-> isr_context(i), did |-> irq_bridge(kind),
     eoi |-> irq_eoi(kind), ret |-> "IRQ_HANDLED"]

\* rswitch_vmq_back_tx_interrupt: runs whenever its event channel fires while
\* the handler is bound.
rswitch_vmq_back_tx_interrupt ==
    /\ \E i \in Irqs :
         /\ handler[i] = "tx"
         /\ isr' = irq_run("tx", i)
    /\ isr' # isr
    /\ UNCHANGED <<mon_vars, ctl_vars, dev_vars, be_vars, pool_vars, irq_vars, ndev,
                   store_vars, seen, cfg_vars, faults>>

\* rswitch_vmq_back_rx_interrupt.
rswitch_vmq_back_rx_interrupt ==
    /\ \E i \in Irqs :
         /\ handler[i] = "rx"
         /\ isr' = irq_run("rx", i)
    /\ isr' # isr
    /\ UNCHANGED <<mon_vars, ctl_vars, dev_vars, be_vars, pool_vars, irq_vars, ndev,
                   store_vars, seen, cfg_vars, faults>>

(* ------------------------ control-store reader ------------------------ *)

\* A reader outside any transaction reads the three keys of the node: it
\* sees the visible store, never the buffer of an open transaction.
store_read ==
    /\ seen' = [keys |-> store, buffered |-> Cardinality(xbt_buf),
                reads |-> IF seen.reads < 1 THEN seen.reads + 1 ELSE seen.reads]
    /\ seen' # seen
    /\ UNCHANGED <<mon_vars, ctl_vars, dev_vars, be_vars, pool_vars, irq_vars, ndev,
                   store_vars, cfg_vars, faults, isr>>

\* What the bus and the frontend start: an announcement of the frontend, the
\* removal of the device.
EventNext ==
    \/ rswitch_vmq_frontend_changed
    \/ rswitch_vmq_driver_remove

\* The steps the xenbus control thread takes by itself once a callback runs.
ThreadNext ==
    \/ rswitch_vmq_back_probe_get
    \/ rswitch_vmq_back_probe_ndev
    \/ rswitch_vmq_back_probe_start
    \/ rswitch_vmq_back_probe_write
    \/ rswitch_vmq_back_probe_end
    \/ rswitch_vmq_back_probe_abort
    \/ rswitch_vmq_back_probe_fail
    \/ rswitch_vmq_back_probe_switch
    \/ rswitch_vmq_frontend_changed_online
    \/ rswitch_vmq_frontend_changed_unregister
    \/ set_backend_state_exit
    \/ set_backend_state_switch
    \/ set_backend_state_connect
    \/ set_backend_state_disconnect
    \/ set_backend_state_warn
    \/ rswitch_vmq_back_connect_gather
    \/ rswitch_vmq_back_connect_bindtx
    \/ rswitch_vmq_back_connect_bindrx
    \/ rswitch_vmq_back_connect_register
    \/ rswitch_vmq_back_remove
    \/ rswitch_vmq_back_remove_unregister
    \/ rswitch_vmq_back_remove_put
    \/ rswitch_vmq_back_remove_free

\* The xenbus control thread.
ControlNext == ThreadNext \/ EventNext

Next == ControlNext \/ store_read

\* The control thread and the control-store reader.
Spec == Init /\ [][Next]_vars

NextIrq ==
    \/ ControlNext
    \/ rswitch_vmq_back_tx_interrupt
    \/ rswitch_vmq_back_rx_interrupt

\* The control thread with the interrupt handlers running whenever they are
\* bound.
SpecIrq == Init /\ [][NextIrq]_vars

\* The remove callback invoked on a device whose probe failed, or a second
\* time after it has run.
rswitch_vmq_driver_remove_again ==
    /\ pc \in {"probe_failed", "gone"}
    /\ pc' = "remove"
    /\ online' = "unread"
    /\ UNCHANGED <<mon_vars, cont, desired, warned, connect_ret, dev_vars, be_vars,
                   pool_vars, irq_vars, ndev, store_vars, seen, cfg_vars, faults, isr>>

NextRemove == Next \/ rswitch_vmq_driver_remove_again

\* The program with remove callable in every state of the device.
SpecRemove == Init /\ [][NextRemove]_vars

\* Another attachment of the switch takes a chain from the pool.
gwca_other_get ==
    /\ rswitch_gwca_get(pool) # 0
    /\ pool' = [pool EXCEPT ![rswitch_gwca_get(pool)] = "other"]
    /\ UNCHANGED <<mon_vars, ctl_vars, dev_vars, be_vars, puts, irq_vars, ndev,
                   store_vars, seen, cfg_vars, faults, isr>>

\* Another attachment of the switch puts a chain of its own back.
gwca_other_put ==
    /\ \E c \in Chains :
         /\ pool[c] = "other"
         /\ pool' = [pool EXCEPT ![c] = "free"]
    /\ UNCHANGED <<mon_vars, ctl_vars, dev_vars, be_vars, puts, irq_vars, ndev,
                   store_vars, seen, cfg_vars, faults, isr>>

NextPool == ControlNext \/ gwca_other_get \/ gwca_other_put

\* The control thread with other attachments using the chain pool.
SpecPool == Init /\ [][NextPool]_vars

\* The control thread, which goes on whenever it has a step to take; when
\* the frontend announces something and when the bus removes the device is
\* not up to it.
SpecFair == Init /\ [][ControlNext]_vars /\ WF_vars(ThreadNext)

(* ------------------------------ claims -------------------------------- *)

\* Positions of the control thread inside (or after a failed) probe.
ProbePcs ==
    {"probe", "p_ndev", "p_start", "p_write", "p_end", "p_abort", "p_fail",
     "p_switch", "probe_failed"}

\* Probe returned 0 earlier.
Attached == pc \notin ProbePcs

\* The edges of the transition table: <<current, next>>.
TableEdges ==
    {<<"Closed", "InitWait">>, <<"Closed", "Closing">>,
     <<"InitWait", "Connected">>, <<"Initialised", "Connected">>,
     <<"InitWait", "Closing">>, <<"Initialised", "Closing">>,
     <<"Connected", "Closing">>, <<"Closing", "Closed">>}

\* The rows of the transition table: <<current, desired>>.
TablePairs ==
    ({"Closed"} \X {"InitWait", "Connected", "Closing"})
    \cup ({"InitWait", "Initialised"} \X {"Connected", "Closing", "Closed"})
    \cup ({"Connected"} \X {"InitWait", "Closing", "Closed"})
    \cup ({"Closing"} \X {"InitWait", "Connected", "Closed"})

CountIn(seq, x) == Cardinality({i \in DOMAIN seq : seq[i] = x})

OwnChains == {tx_chain, rx_chain} \ {0}

\* C1: after a successful probe, every change of dev->state, whatever the
\* frontend announces ("Reconfiguring" included), is an edge of the
\* transition table.
C1_OnlyTableEdges ==
    [][(Attached /\ state' # state) => <<state, state'>> \in TableEdges]_vars

\* C2: set_backend_state stops; once a pass of the loop has found that no
\* table edge applies to (dev->state, state), the loop is not entered again.
C2_LoopStopsWithoutEdge == ~(pc = "sbs" /\ warned)

\* C3: while set_backend_state runs on a (current, desired) pair that is no
\* row of the table, dev->state does not change and no handler is bound or
\* unbound, no chain is acquired or released, and the local device is
\* neither registered nor unregistered.
C3_NoEdgeNoEffect ==
    [][(pc = "sbs" /\ <<state, desired>> \notin TablePairs)
         => UNCHANGED <<state, be_vars, pool_vars, irq_vars, ndev>>]_vars

\* C3 witness: the loop has passed through a default for a pair outside the
\* table.
C3_Witness == pc = "sbs" /\ warned /\ <<state, desired>> \notin TablePairs

\* C4: the announcement "Reconfiguring" is answered and leaves the
\* attachment as it was: dev->state, which the loop reads at the next
\* announcement, the handler fields, the chains and the device handle.
C4_ReconfiguringLeavesState ==
    [][(pc = "idle" /\ pc' = "idle" /\ frontend_state' = "Reconfiguring")
         => (state' = state
             /\ UNCHANGED <<tx_irq, rx_irq, tx_chain, rx_chain, rdev, handler, pool>>)]_vars

\* C5: when probe has returned an error, every chain it acquired is back in
\* the pool, put exactly once.
C5_FailedProbeReleasesChains ==
    pc = "probe_failed" => \A c \in OwnChains : pool[c] # "be" /\ puts[c] = 1

\* C6: when connect has returned the error of the rx bind, the tx handler is
\* unbound, be->tx_irq is 0 and dev->state is still InitWait or Initialised.
C6_RxBindFailureUnbindsTx ==
    connect_ret = "err_rx"
      => /\ tx_irq = 0
         /\ \A i \in Irqs : handler[i] # "tx"
         /\ state \in {"InitWait", "Initialised"}

\* C7: every rswitch_vmq_back_disconnect leaves both handler fields 0 and
\* unbinds the handlers the fields held, rx before tx, each unbound exactly
\* once over the whole run; called with both fields 0 it unbinds nothing.
C7_DisconnectIdempotent ==
    [][disconnects' # disconnects
         => /\ tx_irq' = 0
            /\ rx_irq' = 0
            /\ unbind_log' = unbind_log
                               \o (IF rx_irq # 0 THEN <<rx_irq>> ELSE << >>)
                               \o (IF tx_irq # 0 THEN <<tx_irq>> ELSE << >>)
            /\ \A i \in {tx_irq, rx_irq} \ {0} :
                 handler'[i] = "none" /\ CountIn(unbind_log', i) = 1
            /\ (tx_irq = 0 /\ rx_irq = 0)
                 => (handler' = handler /\ unbind_log' = unbind_log)]_vars

\* C7 witness: two disconnects in a row (the Connected edge, then remove with
\* no connect in between): the first unbound both handlers, the second none.
C7_Witness ==
    pc = "gone" /\ disconnects = 2 /\ next_irq = 3 /\ unbind_log = <<2, 1>>

\* C8: a reader of the control store sees none or all of the three keys of
\* probe, never one or two.
C8_ReaderSeesAllOrNone == Cardinality(seen.keys) \in {0, Len(ProbeKeys)}

\* C8 witness: after a conflict and a retry, the reader read while two keys
\* were written in the open transaction, and saw none.
C8_Witness ==
    retries > 0 /\ seen.reads > 0 /\ seen.buffered = 2 /\ seen.keys = {}

\* C9: when the frontend is Closed and xenbus_dev_is_online answered true,
\* the callback has returned with dev->state Closed, no receive handler left
\* bound, the local device registered, be alive and reachable, and both
\* chains held by it.
C9_ClosedOnlineKeepsDevice ==
    online = "yes"
      => /\ pc = "idle"
         /\ frontend_state = "Closed"
         /\ state = "Closed"
         /\ rx_irq = 0
         /\ \A i \in Irqs : handler[i] # "rx"
         /\ rdev = "REG"
         /\ ndev
         /\ be = "alive"
         /\ drvdata = "be"
         /\ Cardinality(OwnChains) = 2
         /\ \A c \in OwnChains : pool[c] = "be" /\ puts[c] = 0

\* C9 witness: the frontend closed a connected device that is online.
C9_Witness == online = "yes" /\ disconnects = 1 /\ Len(unbind_log) = 2

\* C10: after the callback for Closed while not online, or for Unknown, has
\* run, dev->state is Closed, no handler of the device is bound, the local
\* device is unregistered, both chains are back in the pool and be is freed.
C10_FullTeardown ==
    (pc = "gone" /\ cont = "unreg")
      => /\ state = "Closed"
         /\ \A i \in Irqs : handler[i] = "none"
         /\ ~ndev
         /\ rdev = "NULL"
         /\ \A c \in OwnChains : pool[c] # "be" /\ puts[c] = 1
         /\ be = "freed"
         /\ drvdata = "NULL"

\* Positions of the control thread inside rswitch_vmq_back_connect.
ConnectPcs == {"c_gather", "c_bindtx", "c_bindrx", "c_register"}

\* The irqs the notification layer has handed out so far.
BoundEver == 1 .. (next_irq - 1)

\* C11: when probe fails, everything it acquired is rolled back; when it
\* fails after the local device was registered (the publish failed), the
\* device is unregistered again, its slot emptied and be freed on return.
C11_FailedPublishRollsBack ==
    (pc = "probe_failed" /\ rdev = "REG")
      => /\ ~ndev
         /\ priv_rdev[RSWITCH_BACK_BASE_INDEX + if_num] # "be"
         /\ be = "freed"

\* C12: when probe has returned an error, the driver data of the device
\* yields no be.
C12_FailedProbeUnreachable == pc = "probe_failed" => drvdata = "NULL"

\* C13: when "osid" or "if-num" is missing or malformed, probe aborts: both
\* chains are put back once, no local device is registered, no key is
\* published and dev->state is not switched to InitWait.
C13_MissingConfigAborts ==
    (osid = ReadDefault \/ if_num = ReadDefault)
      => /\ pc = "probe_failed"
         /\ \A c \in OwnChains : pool[c] # "be" /\ puts[c] = 1
         /\ ~ndev
         /\ \A s \in Slots : priv_rdev[s] \notin {"be", "stale"}
         /\ store = {}
         /\ state # "InitWait"

\* C14: remove, invoked after a failed probe or a second time, does not
\* fault, puts no chain a second time and unregisters no device that is not
\* registered.
C14_RemoveIsDefensive == faults = {} /\ \A c \in Chains : puts[c] <= 1

\* C15: after remove, every handler any connect bound has been unbound
\* exactly once, the device is unregistered, and both chains are in the pool,
\* each put once.
C15_EverythingReleasedOnce ==
    pc = "gone"
      => /\ \A i \in Irqs : handler[i] = "none"
         /\ \A i \in BoundEver : CountIn(unbind_log, i) = 1
         /\ ~ndev
         /\ \A c \in OwnChains : pool[c] = "free" /\ puts[c] = 1

\* C16: outside connect and disconnect, the tx and rx handlers are both bound
\* or both unbound.
C16_HandlersBothOrNone ==
    pc \notin ConnectPcs
      => /\ (tx_irq = 0) <=> (rx_irq = 0)
         /\ (\E i \in Irqs : handler[i] = "tx") <=> (\E i \in Irqs : handler[i] = "rx")

\* C17: between two announcements, a bound handler implies dev->state is
\* Connected.
C17_BoundImpliesConnected ==
    pc = "idle" => ((\E i \in Irqs : handler[i] # "none") => state = "Connected")

\* C18: no interrupt handler runs before the connect that binds it has
\* completed.
C18_NoHandlerBeforeConnectCompletes == isr.ctx # "early"

\* C19: no interrupt handler of the device runs once remove has freed be.
C19_NoHandlerAfterFree == isr.ctx # "freed"

\* C20: a probe never overwrites the device slot of another live attachment.
C20_SlotNotOverwritten ==
    [][\A s \in Slots : priv_rdev[s] = "other" => priv_rdev'[s] = "other"]_vars

\* C21: with other attachments taking and putting chains of the same pool,
\* no chain another attachment holds is a tx_chain or rx_chain of the be the
\* device's driver data yields, and the device puts only chains it holds.
C21_ChainHasOneOwner ==
    [][/\ \A c \in Chains :
            (pool'[c] = "other" /\ drvdata' = "be") => c \notin {tx_chain', rx_chain'}
       /\ \A c \in Chains : puts'[c] > puts[c] => pool[c] = "be"]_vars

\* The values dev->state takes in the transition table.
TableStates == {"Closed", "InitWait", "Initialised", "Connected", "Closing"}

\* Positions of the control thread inside set_backend_state.
SbsPcs == {"sbs"} \cup ConnectPcs

C23_ConnectedOnlyAfterConnect ==
    [][/\ (state' = "Connected" /\ state # "Connected")
            => /\ pc = "c_register"
               /\ connect_ret' = "ok"
               /\ tx_irq' # 0 /\ handler'[tx_irq'] = "tx"
               /\ rx_irq' # 0 /\ handler'[rx_irq'] = "rx"
               /\ \A c \in {tx_chain, rx_chain} : registered'[c] >= 1
               /\ notified' = {"tx", "rx"}
       /\ (connect_ret' \in {"err_gather", "err_tx", "err_rx"} /\ connect_ret = "none")
            => /\ pc \in ConnectPcs
               /\ state' = state
               /\ pc' \notin SbsPcs]_vars

\* C23 witness: a connect succeeded after an earlier one had failed at the
\* rx bind.
C23_Witness ==
    pc = "sbs" /\ state = "Connected" /\ connect_ret = "ok" /\ next_irq = 4

\* C24: when xenbus_gather fails, connect returns the error with no handler
\* bound, no chain registered and no channel signalled by it, dev->state is
\* as it was and set_backend_state returns.
C24_GatherFailureAborts ==
    [][(connect_ret' = "err_gather" /\ connect_ret # "err_gather")
         => /\ pc = "c_gather"
            /\ UNCHANGED <<handler, next_irq, tx_irq, rx_irq, registered, state>>
            /\ notified' = {}
            /\ pc' \notin SbsPcs]_vars

\* C24 witness: the first connect of the device failed at xenbus_gather.
C24_Witness ==
    /\ connect_ret = "err_gather"
    /\ pc = "idle"
    /\ state = "InitWait"
    /\ next_irq = 1
    /\ \A c \in Chains : registered[c] = 0

\* C25: when probe has failed because rswitch_gwca_get returned NULL for the
\* tx or the rx chain, the chain it did get is back in the pool, put exactly
\* once, no other chain was put, no device is registered, no key published,
\* and dev->state is still Initialising.
C25_ChainFailureReleases ==
    (pc = "probe_failed" /\ be = "alive" /\ (tx_chain = 0 \/ rx_chain = 0))
      => /\ \A c \in OwnChains : pool[c] = "free" /\ puts[c] = 1
         /\ \A c \in Chains \ OwnChains : puts[c] = 0
         /\ ~ndev
         /\ rdev = "NULL"
         /\ \A sl \in Slots : priv_rdev[sl] \in {"none", "other"}
         /\ store = {}
         /\ ~xbt_open
         /\ state = "Initialising"

\* C25 witness: the pool had one free chain: tx got it, rx got none, and
\* fail: put the tx chain back.
C25_Witness ==
    /\ pc = "probe_failed"
    /\ tx_chain # 0
    /\ rx_chain = 0
    /\ pool[tx_chain] = "free"
    /\ puts[tx_chain] = 1

\* The positions of probe inside the publish loop.
PublishPcs == {"p_start", "p_write", "p_end", "p_abort"}

\* C26: probe changes dev->state only by the switch to InitWait, made with
\* the three keys committed; a probe that returns 0 leaves dev->state
\* InitWait, both chains held and the device registered; a probe that returns
\* an error leaves dev->state Initialising.
C26_InitWaitAfterCommit ==
    [][/\ (pc \in ProbePcs /\ state' # state)
            => /\ pc = "p_switch"
               /\ state' = "InitWait"
               /\ store = Range(ProbeKeys)
               /\ ~xbt_open
       /\ (pc \in ProbePcs /\ pc' \notin ProbePcs)
            => /\ state' = "InitWait"
               /\ Cardinality(OwnChains') = 2
               /\ \A c \in OwnChains' : pool'[c] = "be"
               /\ ndev' /\ rdev' = "REG"
               /\ store' = Range(ProbeKeys)
       /\ (pc' = "probe_failed") => state' = "Initialising"]_vars

\* C26 witness: probe returned 0 after a conflict and a second publish.
C26_Witness ==
    /\ pc = "idle"
    /\ state = "InitWait"
    /\ frontend_state = "Unknown"
    /\ retries = MaxRetry
    /\ store = Range(ProbeKeys)

C28_RemoveOrder ==
    [][/\ (pc = "remove" /\ pc' # pc /\ drvdata = "be" /\ rdev # "NULL")
            => /\ pc' = "r_unreg"
               /\ disconnects' = disconnects + 1
               /\ tx_irq' = 0 /\ rx_irq' = 0
               /\ \A i \in {tx_irq, rx_irq} \ {0} : handler'[i] = "none"
               /\ UNCHANGED <<ndev, rdev, pool, be, drvdata>>
       /\ (Attached /\ ndev' # ndev)
            => /\ pc = "r_unreg"
               /\ tx_irq = 0 /\ rx_irq = 0
               /\ ~ndev' /\ rdev' = "NULL"
               /\ UNCHANGED <<pool, be, drvdata>>
       /\ (Attached /\ pool' # pool)
            => /\ pc = "r_put"
               /\ ~ndev /\ rdev = "NULL"
               /\ \A c \in OwnChains : pool'[c] = "free"
               /\ UNCHANGED <<be, drvdata>>
       /\ (be' # be /\ be = "alive")
            => /\ pc = "r_free"
               /\ \A c \in OwnChains : pool[c] = "free" /\ puts[c] = 1
               /\ be' = "freed"
               /\ drvdata' = "NULL"]_vars

\* C28 witness: the device was removed while Connected.
C28_Witness ==
    pc = "gone" /\ state = "Connected" /\ disconnects = 1 /\ Len(unbind_log) = 2

\* C29: every run of rswitch_vmq_back_rx_interrupt or
\* rswitch_vmq_back_tx_interrupt calls xen_irq_lateeoi once, returns
\* IRQ_HANDLED, does its one call (rx: rswitch_enadis_rdev_irqs, tx:
\* rswitch_trigger_chain) and changes nothing of be, of dev->state or of the
\* pool.
C29_HandlerAcksOnce ==
    [][isr' # isr
         => /\ isr'.eoi = 1
            /\ isr'.ret = "IRQ_HANDLED"
            /\ isr'.kind = "rx" => isr'.did = "rswitch_enadis_rdev_irqs"
            /\ isr'.kind = "tx" => isr'.did = "rswitch_trigger_chain"
            /\ UNCHANGED <<dev_vars, be_vars, pool_vars, irq_vars, ndev, cfg_vars,
                           registered>>]_vars

\* C29 witness: both handlers have run on a connected device, rx last.
C29_Witness ==
    isr.kind = "rx" /\ isr.ctx = "connected" /\ state = "Connected" /\ pc = "idle"

\* C30: the set_backend_state of the announcement that follows an answered
\* "Reconfiguring" (dev->state is Reconfigured when it starts) returns.
C30_AfterReconfiguredReturns ==
    (pc = "sbs" /\ state = "Reconfigured") ~> (pc \notin SbsPcs)

\* C31: over connect, disconnect and connect again of one device, no chain
\* is registered with the datapath a second time while its first
\* registration stands.
C31_ChainRegisteredOnce == \A c \in Chains : registered[c] <= 1

=============================================================================
